---- MODULE Spec2Model ----
(***************************************************************************)
(* tcpping (src/netutil/tcpping.py): main, do_loop, tcp_ping, suppress,    *)
(* statistics, footer, header, get_hostname_ipaddr and parse_args as one   *)
(* sequential state machine.  pc is the statement about to run.            *)
(*                                                                         *)
(* Durations are floats with whole-number values in the unit the report    *)
(* shows to three decimals, so that the "{:.3f} ms" formatting of          *)
(* 1000.0 * seconds is a rounding to a whole number.  Intervals are        *)
(* integers in hundredths of a second.                                     *)
(* Exceptions are the names of their classes; "none" is no exception.      *)
(***************************************************************************)
EXTENDS Integers, Sequences, FiniteSets, TLC

VARIABLES
    pc,           \* statement about to run
    argv,         \* the command line as given: host, count, interval, numeric_only
    args,         \* Namespace returned by parse_args
    target,       \* (hostname, ipaddr) bound at main line 258
    passed,       \* do_loop local
    failed,       \* do_loop local
    times_list,   \* do_loop local
    idx,          \* do_loop loop variable
    isok,         \* do_loop local
    timespan,     \* do_loop local
    ret,          \* value tcp_ping is about to return (pending in its finally)
    connect_exc,  \* what sock.connect raised in the current probe ("none": nothing)
    exc,          \* exception in flight ("none" when there is none)
    nopen,        \* sockets created and not yet closed by sock.close
    out,          \* lines printed on standard output
    sleeps,       \* intervals slept by time.sleep, in order
    interrupted,  \* do_loop returned from its except KeyboardInterrupt clause
    rc,           \* value returned by main (NoRc while it has not returned)
    escaped       \* exception that left main uncaught ("none" when none did)

vars == <<pc, argv, args, target, passed, failed, times_list, idx, isok, timespan,
          ret, connect_exc, exc, nopen, out, sleeps, interrupted, rc, escaped>>

---------------------------------------------------------------------------
(* Bounds of the model *)
MaxCount == 3
MaxTime == 3
PrecisionBits == 3
ExampleBits == 6

(* Program constants *)
MinInterval == 20
DEFAULT_INTERVAL == 100
ExitError == 9
ExitOk == 0

NoRc == 0 - 1

Times == {1, MaxTime}
Counts == 0..MaxCount
Intervals == {5, MinInterval, DEFAULT_INTERVAL}

IPv4Literals == {"10.0.0.1", "10.0.0.2"}
HostNames == {"alpha", "beta"}
HostArgs == {"10.0.0.1", "alpha"}

---------------------------------------------------------------------------
(* Exception classes *)

ExcParent ==
    [ e \in {"socket.timeout", "socket.gaierror", "socket.herror", "OSError",
             "OverflowError", "TypeError", "ValueError", "ZeroDivisionError",
             "Exception", "KeyboardInterrupt", "BaseException"} |->
        CASE e \in {"socket.timeout", "socket.gaierror", "socket.herror"} -> "OSError"
          [] e \in {"OSError", "OverflowError", "TypeError", "ValueError",
                    "ZeroDivisionError"} -> "Exception"
          [] OTHER -> "BaseException" ]

RECURSIVE IsSubclass(_, _)
IsSubclass(typ, base) ==
    IF typ = base THEN TRUE
    ELSE IF typ = "BaseException" THEN FALSE
    ELSE IsSubclass(ExcParent[typ], base)

(* suppress.__exit__: TRUE when the exception is swallowed *)
SuppressExit(exctypes, typ) == typ \in exctypes

(* what sock.connect may raise *)
ConnectRaises == {"socket.timeout", "OSError", "OverflowError", "KeyboardInterrupt"}
(* what sock.shutdown and sock.close may raise *)
TeardownRaises == {"OSError", "Exception", "KeyboardInterrupt"}

---------------------------------------------------------------------------
(* Arithmetic helpers *)

Abs(x) == IF x < 0 THEN 0 - x ELSE x
Max2(a, b) == IF a >= b THEN a ELSE b

SeqMin(s) == CHOOSE m \in {s[i] : i \in DOMAIN s} : \A i \in DOMAIN s : m <= s[i]
SeqMax(s) == CHOOSE m \in {s[i] : i \in DOMAIN s} : \A i \in DOMAIN s : m >= s[i]

(* round(): nearest integer to num/den (num >= 0, den > 0), halves away from zero *)
Round(num, den) == (2 * num + den) \div (2 * den)

---------------------------------------------------------------------------
(* Floating point.  The latencies are Python floats, and statistics works   *)
(* in float arithmetic: every sum, difference and quotient is rounded to    *)
(* the nearest representable number, ties to even.  A float is modelled as  *)
(* the fraction [num, den] it equals, and the 53 significant bits of a      *)
(* double are scaled down to PrecisionBits (the exponent is unbounded).     *)

Frac(n) == [num |-> n, den |-> 1]

RECURSIVE Reduce(_)
Reduce(q) ==
    IF q.num = 0 THEN Frac(0)
    ELSE IF q.num % 2 = 0 /\ q.den % 2 = 0
         THEN Reduce([num |-> q.num \div 2, den |-> q.den \div 2])
    ELSE q

(* nearest integer to num/den (num >= 0, den > 0), ties to the even one *)
RoundHalfEven(num, den) ==
    LET q == num \div den
        r == num % den
    IN  IF 2 * r < den THEN q
        ELSE IF 2 * r > den THEN q + 1
        ELSE IF q % 2 = 0 THEN q ELSE q + 1

(* the float of p significant bits nearest to num/den (num >= 0, den > 0) *)
RECURSIVE Fl(_, _, _)
Fl(p, num, den) ==
    IF num = 0 THEN Frac(0)
    ELSE IF num < 2^(p - 1) * den
         THEN LET r == Fl(p, 2 * num, den) IN Reduce([num |-> r.num, den |-> 2 * r.den])
    ELSE IF num >= 2^p * den
         THEN LET r == Fl(p, num, 2 * den) IN Reduce([num |-> 2 * r.num, den |-> r.den])
    ELSE Frac(RoundHalfEven(num, den))

(* a + b, abs(a - b) and a / n in float arithmetic (a, b >= 0, n > 0) *)
FAdd(p, a, b) == Fl(p, a.num * b.den + b.num * a.den, a.den * b.den)
FAbsDiff(p, a, b) == Fl(p, Abs(a.num * b.den - b.num * a.den), a.den * b.den)
FDiv(p, a, n) == Fl(p, a.num, a.den * n)

(* sum(numbers): the elements are added from left to right, starting at 0 *)
RECURSIVE FSum(_, _, _)
FSum(p, acc, s) ==
    IF s = << >> THEN acc ELSE FSum(p, FAdd(p, acc, Head(s)), Tail(s))

---------------------------------------------------------------------------
(* statistics(numbers), lines 84-97, in floats of p significant bits.  The  *)
(* value is the tuple the code returns, in its order: (min, max, avg,       *)
(* mean_deviation); min and max are elements of the list, avg and           *)
(* mean_deviation are fractions.  min() of an empty list raises ValueError. *)

(* statistics.mean written as "sum(numbers) / max(len(numbers), 1)" on      *)
(* whole numbers: the quotient is truncated                                 *)
MeanAt_Truncating(p, numbers) ==
    LET total == FSum(p, Frac(0), numbers)
    IN  Frac(total.num \div (total.den * Max2(Len(numbers), 1)))

(* statistics.mean, lines 92-93 *)
MeanAt(p, numbers) == FDiv(p, FSum(p, Frac(0), numbers), Max2(Len(numbers), 1))

StatisticsAt(p, numbers) ==
    LET floats == [i \in DOMAIN numbers |-> Frac(numbers[i])]
        avg == MeanAt(p, floats)
        mean_deviation == MeanAt(p, [i \in DOMAIN numbers |-> FAbsDiff(p, floats[i], avg)])
    IN  IF numbers = << >>
        THEN [raised |-> "ValueError"]
        ELSE [raised |-> "none",
              value |-> << SeqMin(numbers), SeqMax(numbers), avg, mean_deviation >>]

Statistics(numbers) == StatisticsAt(PrecisionBits, numbers)

(* "{:.3f}" of 1000.0 * q: the nearest whole number of the unit in which    *)
(* the model counts durations                                               *)
Fmt3(q) == Round(q.num, q.den)

(* footer(passed, failed, times_list, totaltime, hostname, ipaddr); the     *)
(* wall-clock totaltime is not modelled.  Line 227 unpacks the tuple of     *)
(* statistics by position; rtt lists the four numbers in the order          *)
(* FOOTER_TMPL prints them after "rtt min/avg/max/mdev = ".  The percentage *)
(* is exact: rounding 100.0 * failed / total to a double cannot move it     *)
(* across a half.                                                           *)
Footer(p, f, tl, hostname, ipaddr) ==
    LET total == p + f
        st == Statistics(tl)
        min == st.value[1]
        max == st.value[2]
        avg == st.value[3]
        mdev == st.value[4]
    IN  IF total = 0 THEN [raised |-> "ZeroDivisionError"]
        ELSE IF st.raised # "none" THEN [raised |-> st.raised]
        ELSE [raised |-> "none", kind |-> "footer", ipaddr |-> ipaddr,
              total |-> total, passed |-> p, percent |-> Round(100 * f, total),
              rtt |-> << min, max, Fmt3(avg), Fmt3(mdev) >>]

---------------------------------------------------------------------------
(* parse_args without lines 248-250: the interval is taken as given *)
ParseArgs_NoClamp(host, count, interval, numeric_only) ==
    [host |-> host, count |-> count, numeric_only |-> numeric_only,
     interval |-> interval]

(* parse_args: the interval is raised to 0.2 s with a warning *)
ParseArgs(host, count, interval, numeric_only) ==
    [host |-> host, count |-> count, numeric_only |-> numeric_only,
     interval |-> IF interval < MinInterval THEN MinInterval ELSE interval]

ParseArgsOutput(interval) ==
    IF interval < MinInterval THEN << [kind |-> "warning"] >> ELSE << >>

is_valid_ipv4(addr) == addr \in IPv4Literals

(* The answers the resolver may give to the one lookup get_hostname_ipaddr  *)
(* makes: a name (gethostbyaddr), an address (gethostbyname), "fail" when   *)
(* the lookup raises, "unused" when no lookup is made.                      *)
Lookups(a) ==
    IF is_valid_ipv4(a.host)
    THEN IF a.numeric_only THEN {"unused"} ELSE HostNames \cup {"fail"}
    ELSE IPv4Literals \cup {"fail"}

get_hostname_ipaddr(a, lookup) ==
    IF is_valid_ipv4(a.host)
    THEN IF ~a.numeric_only
         THEN IF lookup = "fail" THEN [raised |-> "socket.herror"]
              ELSE [raised |-> "none", hostname |-> lookup, ipaddr |-> a.host]
         ELSE [raised |-> "none", hostname |-> a.host, ipaddr |-> a.host]
    ELSE IF lookup = "fail" THEN [raised |-> "socket.gaierror"]
         ELSE [raised |-> "none", hostname |-> a.host, ipaddr |-> lookup]

(* header(args): the banner, or the exception the lookup raised *)
Header(a, lookup) ==
    LET r == get_hostname_ipaddr(a, lookup)
    IN  IF r.raised # "none" THEN r
        ELSE [raised |-> "none", kind |-> "header",
              hostname |-> r.hostname, ipaddr |-> r.ipaddr]

---------------------------------------------------------------------------
(* Control *)

NoArgs == [host |-> "", count |-> 0, numeric_only |-> FALSE, interval |-> 0]
NoRet == [kind |-> "none", isok |-> FALSE, timespan |-> 0]

(* statements of do_loop's try body, between which a KeyboardInterrupt may  *)
(* be delivered                                                             *)
DoLoopPcs == {"for", "unpack", "inc_passed", "inc_failed", "append", "print",
              "sleep", "return"}
TcpPingPcs == {"socket", "connect", "shutdown", "close"}

Init ==
    /\ pc = "parse_args"
    /\ argv = NoArgs
    /\ args = NoArgs
    /\ target = << "", "" >>
    /\ passed = 0
    /\ failed = 0
    /\ times_list = << >>
    /\ idx = 0 - 1
    /\ isok = FALSE
    /\ timespan = 0
    /\ ret = NoRet
    /\ connect_exc = "none"
    /\ exc = "none"
    /\ nopen = 0
    /\ out = << >>
    /\ sleeps = << >>
    /\ interrupted = FALSE
    /\ rc = NoRc
    /\ escaped = "none"

(* An exception typ leaves the body of do_loop's try (lines 191-207) and,   *)
(* when do_loop does not catch it, the body of main's try (lines 260-265).  *)
Raise(typ) ==
    /\ pc' = IF IsSubclass(typ, "KeyboardInterrupt") THEN "else"
             ELSE IF IsSubclass(typ, "Exception") THEN "except"
             ELSE "exit"
    /\ interrupted' = IsSubclass(typ, "KeyboardInterrupt")
    /\ exc' = IF IsSubclass(typ, "KeyboardInterrupt") THEN "none" ELSE typ
    /\ escaped' = IF IsSubclass(typ, "KeyboardInterrupt") \/ IsSubclass(typ, "Exception")
                  THEN escaped ELSE typ

(* main line 256 *)
MainParseArgs ==
    /\ pc = "parse_args"
    /\ \E host \in HostArgs, count \in Counts, interval \in Intervals,
          numeric_only \in BOOLEAN :
          /\ argv' = [host |-> host, count |-> count, numeric_only |-> numeric_only,
                      interval |-> interval]
          /\ args' = ParseArgs(host, count, interval, numeric_only)
          /\ out' = out \o ParseArgsOutput(interval)
    /\ pc' = "header"
    /\ UNCHANGED <<target, passed, failed, times_list, idx, isok, timespan, ret, connect_exc,
                   exc, nopen, sleeps, interrupted, rc, escaped>>

(* main line 257: print(header(args)), outside any try *)
MainHeader ==
    /\ pc = "header"
    /\ \E lookup \in Lookups(args) :
          LET h == Header(args, lookup)
          IN  IF h.raised # "none"
              THEN /\ escaped' = h.raised
                   /\ pc' = "exit"
                   /\ out' = out
              ELSE /\ escaped' = escaped
                   /\ pc' = "resolve"
                   /\ out' = Append(out, h)
    /\ UNCHANGED <<argv, args, target, passed, failed, times_list, idx, isok, timespan,
                   ret, connect_exc, exc, nopen, sleeps, interrupted, rc>>

(* main line 258: a second lookup, outside any try *)
MainResolve ==
    /\ pc = "resolve"
    /\ \E lookup \in Lookups(args) :
          LET r == get_hostname_ipaddr(args, lookup)
          IN  IF r.raised # "none"
              THEN /\ escaped' = r.raised
                   /\ pc' = "exit"
                   /\ target' = target
              ELSE /\ escaped' = escaped
                   /\ pc' = "do_loop"
                   /\ target' = << r.hostname, r.ipaddr >>
    /\ UNCHANGED <<argv, args, passed, failed, times_list, idx, isok, timespan,
                   ret, connect_exc, exc, nopen, out, sleeps, interrupted, rc>>

(* main lines 259-261 and do_loop lines 186-189 *)
DoLoopEnter ==
    /\ pc = "do_loop"
    /\ passed' = 0
    /\ failed' = 0
    /\ times_list' = << >>
    /\ pc' = "for"
    /\ UNCHANGED <<argv, args, target, idx, isok, timespan, ret, connect_exc, exc, nopen, out,
                   sleeps, interrupted, rc, escaped>>

(* do_loop line 192: for idx in xrange(count) *)
DoLoopFor ==
    /\ pc = "for"
    /\ IF idx + 1 < args.count
       THEN /\ idx' = idx + 1
            /\ pc' = "socket"
       ELSE /\ idx' = idx
            /\ pc' = "return"
    /\ UNCHANGED <<argv, args, target, passed, failed, times_list, isok, timespan, ret, connect_exc,
                   exc, nopen, out, sleeps, interrupted, rc, escaped>>

(* tcp_ping lines 120-122 *)
TcpPingSocket ==
    /\ pc = "socket"
    /\ nopen' = nopen + 1
    /\ ret' = NoRet
    /\ connect_exc' = "none"
    /\ pc' = "connect"
    /\ UNCHANGED <<argv, args, target, passed, failed, times_list, idx, isok, timespan,
                   exc, out, sleeps, interrupted, rc, escaped>>

(* tcp_ping lines 124-140: the value the clause that handles `raised`       *)
(* returns; kind "bool" is the bare False of line 137, kind "none" is no    *)
(* return (no clause handles the exception)                                 *)
ConnectResult(raised, t) ==
    IF raised = "none" THEN [kind |-> "tuple", isok |-> TRUE, timespan |-> t]
    ELSE IF IsSubclass(raised, "socket.timeout")
         THEN [kind |-> "tuple", isok |-> FALSE, timespan |-> t]
    ELSE IF IsSubclass(raised, "OSError")
         THEN [kind |-> "tuple", isok |-> FALSE, timespan |-> t]
    ELSE IF IsSubclass(raised, "Exception")
         THEN [kind |-> "bool", isok |-> FALSE, timespan |-> 0]
    ELSE NoRet

(* tcp_ping without the prints of lines 128, 132 and 136 *)
ConnectOutput_Silent(raised) == << >>

ConnectOutput(raised) ==
    IF raised = "none" \/ ~IsSubclass(raised, "Exception") THEN << >>
    ELSE IF IsSubclass(raised, "socket.timeout") THEN << [kind |-> "timed out"] >>
    ELSE IF IsSubclass(raised, "OSError") THEN << [kind |-> "OSError"] >>
    ELSE << [kind |-> "Exception occurred"] >>

(* tcp_ping lines 124-140; control then enters the finally clause *)
TcpPingConnect ==
    /\ pc = "connect"
    /\ \E raised \in ConnectRaises \cup {"none"}, t \in Times :
          /\ ret' = ConnectResult(raised, t)
          /\ connect_exc' = raised
          /\ exc' = IF ConnectResult(raised, t).kind = "none" THEN raised ELSE "none"
          /\ out' = out \o ConnectOutput(raised)
    /\ pc' = "shutdown"
    /\ UNCHANGED <<argv, args, target, passed, failed, times_list, idx, isok, timespan,
                   nopen, sleeps, interrupted, rc, escaped>>

(* tcp_ping lines 143-144: with suppress(Exception): sock.shutdown(...)     *)
TcpPingShutdown ==
    /\ pc = "shutdown"
    /\ \E raised \in TeardownRaises \cup {"none"} :
          IF raised = "none" \/ SuppressExit({"Exception"}, raised)
          THEN /\ pc' = "close"
               /\ UNCHANGED <<exc, interrupted, escaped>>
          ELSE Raise(raised)
    /\ UNCHANGED <<argv, args, target, passed, failed, times_list, idx, isok, timespan,
                   ret, connect_exc, nopen, out, sleeps, rc>>

(* tcp_ping lines 145-146: with suppress(Exception): sock.close(); then the *)
(* pending return or exception of the try statement takes effect.  The      *)
(* socket counts as closed once close() has run, whether or not it raised.  *)
TcpPingClose ==
    /\ pc = "close"
    /\ nopen' = nopen - 1
    /\ \E raised \in TeardownRaises \cup {"none"} :
          IF raised = "none" \/ SuppressExit({"Exception"}, raised)
          THEN IF exc # "none"
               THEN Raise(exc)
               ELSE /\ pc' = "unpack"
                    /\ UNCHANGED <<exc, interrupted, escaped>>
          ELSE Raise(raised)
    /\ UNCHANGED <<argv, args, target, passed, failed, times_list, idx, isok, timespan,
                   ret, connect_exc, out, sleeps, rc>>

(* do_loop line 193: isok, timespan = <value returned by tcp_ping> *)
DoLoopUnpack ==
    /\ pc = "unpack"
    /\ IF ret.kind = "tuple"
       THEN /\ isok' = ret.isok
            /\ timespan' = ret.timespan
            /\ pc' = "inc_passed"
            /\ UNCHANGED <<exc, interrupted, escaped>>
       ELSE /\ Raise("TypeError")
            /\ UNCHANGED <<isok, timespan>>
    /\ UNCHANGED <<argv, args, target, passed, failed, times_list, idx, ret, connect_exc, nopen, out,
                   sleeps, rc>>

(* do_loop line 194 *)
DoLoopIncPassed ==
    /\ pc = "inc_passed"
    /\ passed' = passed + (IF isok THEN 1 ELSE 0)
    /\ pc' = "inc_failed"
    /\ UNCHANGED <<argv, args, target, failed, times_list, idx, isok, timespan, ret, connect_exc, exc,
                   nopen, out, sleeps, interrupted, rc, escaped>>

(* do_loop line 195 written as "failed += 1": counts every probe as failed *)
DoLoopIncFailed_Unconditional ==
    /\ pc = "inc_failed"
    /\ failed' = failed + 1
    /\ pc' = "append"
    /\ UNCHANGED <<argv, args, target, passed, times_list, idx, isok, timespan, ret,
                   connect_exc, exc, nopen, out, sleeps, interrupted, rc, escaped>>

(* do_loop line 195 *)
DoLoopIncFailed ==
    /\ pc = "inc_failed"
    /\ failed' = failed + (IF ~isok THEN 1 ELSE 0)
    /\ pc' = "append"
    /\ UNCHANGED <<argv, args, target, passed, times_list, idx, isok, timespan, ret, connect_exc, exc,
                   nopen, out, sleeps, interrupted, rc, escaped>>

(* do_loop lines 196-197 *)
DoLoopAppend ==
    /\ pc = "append"
    /\ IF isok
       THEN /\ times_list' = Append(times_list, timespan)
            /\ pc' = "print"
       ELSE /\ times_list' = times_list
            /\ pc' = "sleep"
    /\ UNCHANGED <<argv, args, target, passed, failed, idx, isok, timespan, ret, connect_exc, exc,
                   nopen, out, sleeps, interrupted, rc, escaped>>

(* do_loop line 199 with idx in place of idx+1 *)
DoLoopPrint_ZeroBased ==
    /\ pc = "print"
    /\ out' = Append(out, [kind |-> "line", ipaddr |-> target[2],
                           tcp_seq |-> idx, time |-> timespan])
    /\ pc' = "sleep"
    /\ UNCHANGED <<argv, args, target, passed, failed, times_list, idx, isok, timespan,
                   ret, connect_exc, exc, nopen, sleeps, interrupted, rc, escaped>>

(* do_loop lines 198-200 *)
DoLoopPrint ==
    /\ pc = "print"
    /\ out' = Append(out, [kind |-> "line", ipaddr |-> target[2],
                           tcp_seq |-> idx + 1, time |-> timespan])
    /\ pc' = "sleep"
    /\ UNCHANGED <<argv, args, target, passed, failed, times_list, idx, isok, timespan,
                   ret, connect_exc, exc, nopen, sleeps, interrupted, rc, escaped>>

(* do_loop line 202 without the test of line 201: sleeps after every probe *)
DoLoopSleep_Always ==
    /\ pc = "sleep"
    /\ sleeps' = Append(sleeps, args.interval)
    /\ pc' = "for"
    /\ UNCHANGED <<argv, args, target, passed, failed, times_list, idx, isok, timespan,
                   ret, connect_exc, exc, nopen, out, interrupted, rc, escaped>>

(* do_loop lines 201-202 *)
DoLoopSleep ==
    /\ pc = "sleep"
    /\ sleeps' = IF idx + 1 < args.count THEN Append(sleeps, args.interval) ELSE sleeps
    /\ pc' = "for"
    /\ UNCHANGED <<argv, args, target, passed, failed, times_list, idx, isok, timespan,
                   ret, connect_exc, exc, nopen, out, interrupted, rc, escaped>>

(* do_loop line 204 *)
DoLoopReturn ==
    /\ pc = "return"
    /\ pc' = "else"
    /\ UNCHANGED <<argv, args, target, passed, failed, times_list, idx, isok, timespan,
                   ret, connect_exc, exc, nopen, out, sleeps, interrupted, rc, escaped>>

(* A KeyboardInterrupt delivered between two statements of do_loop's try    *)
(* body, or during the sleep: lines 206-207                                 *)
KeyboardInterrupt ==
    /\ pc \in DoLoopPcs
    /\ Raise("KeyboardInterrupt")
    /\ UNCHANGED <<argv, args, target, passed, failed, times_list, idx, isok, timespan,
                   ret, connect_exc, nopen, out, sleeps, rc>>

(* main lines 263-265 *)
MainExcept ==
    /\ pc = "except"
    /\ out' = Append(out, [kind |-> "Unhandled Exception", typ |-> exc])
    /\ rc' = ExitError
    /\ pc' = "exit"
    /\ UNCHANGED <<argv, args, target, passed, failed, times_list, idx, isok, timespan,
                   ret, connect_exc, exc, nopen, sleeps, interrupted, escaped>>

(* main lines 267-271: the else clause, whose exceptions no clause catches *)
MainElse ==
    /\ pc = "else"
    /\ LET f == Footer(passed, failed, times_list, target[1], target[2])
       IN  IF f.raised # "none"
           THEN /\ escaped' = f.raised
                /\ UNCHANGED <<out, rc>>
           ELSE /\ out' = Append(out, f)
                /\ rc' = ExitOk
                /\ escaped' = escaped
    /\ pc' = "exit"
    /\ UNCHANGED <<argv, args, target, passed, failed, times_list, idx, isok, timespan,
                   ret, connect_exc, exc, nopen, sleeps, interrupted>>

Next ==
    \/ MainParseArgs
    \/ MainHeader
    \/ MainResolve
    \/ DoLoopEnter
    \/ DoLoopFor
    \/ TcpPingSocket
    \/ TcpPingConnect
    \/ TcpPingShutdown
    \/ TcpPingClose
    \/ DoLoopUnpack
    \/ DoLoopIncPassed
    \/ DoLoopIncFailed
    \/ DoLoopAppend
    \/ DoLoopPrint
    \/ DoLoopSleep
    \/ DoLoopReturn
    \/ KeyboardInterrupt
    \/ MainExcept
    \/ MainElse

Spec == Init /\ [][Next]_vars

---------------------------------------------------------------------------
(* Properties *)

(* connections attempted, as footer line 224 counts them *)
Attempted == passed + failed

(* the statements from the finally clause of tcp_ping to the end of the     *)
(* accounting of the probe in do_loop                                       *)
ProbePcs == {"shutdown", "close", "unpack", "inc_passed", "inc_failed", "append"}

(* connect failed with a timeout or a connection-level error *)
ConnectFailed ==
    /\ connect_exc # "none"
    /\ IsSubclass(connect_exc, "socket.timeout") \/ IsSubclass(connect_exc, "OSError")

(* connect failed with an exception that is neither *)
ConnectUnexpected ==
    /\ connect_exc # "none"
    /\ IsSubclass(connect_exc, "Exception")
    /\ ~IsSubclass(connect_exc, "socket.timeout")
    /\ ~IsSubclass(connect_exc, "OSError")

(* the accounting of a failed probe: failed grows by one at line 195 and    *)
(* nowhere else, passed and times_list do not change, no line is printed,   *)
(* and the loop goes on to the sleep and the next attempt                   *)
CountedAsOneFailure ==
    /\ pc' # "except"
    /\ passed' = passed
    /\ times_list' = times_list
    /\ failed' = failed + (IF pc = "inc_failed" THEN 1 ELSE 0)
    /\ (pc = "append" => pc' = "sleep")

(* C1: an error raised by sock.shutdown or sock.close, whatever its type,   *)
(* is discarded: when tcp_ping has a (success, elapsed) result pending, no  *)
(* step of its finally clause hands an error to main's handler instead.     *)
C1_TeardownErrorsDiscarded ==
    [][(pc \in {"shutdown", "close"} /\ ret.kind = "tuple") => (pc' # "except")]_vars

(* C2: a probe whose connect fails with a timeout or a connection-level     *)
(* error is counted as exactly one failure, passed and times_list are left  *)
(* alone, and the loop proceeds (the session is not aborted), unless the    *)
(* user interrupts.                                                         *)
C2_FailedProbeCounted ==
    [][(pc \in ProbePcs /\ ConnectFailed /\ ~interrupted') => CountedAsOneFailure]_vars

(* C3: a probe whose connect raises an unexpected exception returns a       *)
(* failed result with its elapsed time, the session is not aborted by it,   *)
(* and at the end of the iteration the probe has been counted as a failure. *)
C3_UnexpectedCounted ==
    ConnectUnexpected =>
        /\ (pc \in ProbePcs => (ret.kind = "tuple" /\ ~ret.isok))
        /\ pc # "except"
        /\ (pc = "sleep" => (~isok /\ passed + failed = idx + 1))

(* C4: once do_loop has returned from its KeyboardInterrupt clause, main    *)
(* ends having printed the footer as its last output and returns 0.         *)
C4_InterruptReports ==
    (interrupted /\ pc = "exit") =>
        /\ rc = ExitOk
        /\ escaped = "none"
        /\ out # << >>
        /\ out[Len(out)].kind = "footer"

C6_TimesMatchPassed ==
    pc = "else" => Len(times_list) = passed

(* C7: statistics of an empty latency list does not raise and returns       *)
(* (0, 0, 0, 0); stated where footer calls it (every attempt failed).       *)
C7_EmptyStatistics ==
    (pc = "else" /\ failed > 0 /\ passed = 0 /\ times_list = << >>) =>
        LET st == Statistics(times_list)
        IN  /\ st.raised = "none"
            /\ st.value[1] = 0
            /\ st.value[2] = 0
            /\ st.value[3].num = 0
            /\ st.value[4].num = 0

(* C8: footer's percentage is the integer nearest to 100 * failed /         *)
(* (passed + failed), and with passed + failed = 0 footer still returns a   *)
(* summary instead of raising ZeroDivisionError.                            *)
C8_FooterPercent ==
    pc = "else" =>
        LET f == Footer(passed, failed, times_list, target[1], target[2])
        IN  /\ f.raised # "ZeroDivisionError"
            /\ (f.raised = "none" =>
                  2 * Abs(f.percent * Attempted - 100 * failed) <= Attempted)

(* C9: main only ever returns 0 or 9 and no exception leaves it; a failed   *)
(* lookup makes it return 9.                                                *)
C9_MainReturns ==
    pc = "exit" => (escaped = "none" /\ rc \in {ExitOk, ExitError})

(* C10: outside tcp_ping no socket is open: every socket tcp_ping created   *)
(* was closed before control left it.                                       *)
C10_NoSocketLeft ==
    pc \notin TcpPingPcs => nopen = 0

(* the statements of one iteration of do_loop up to and including the      *)
(* print of the report line: probe idx+1 is in flight or being accounted   *)
IterationPcs == TcpPingPcs \cup {"unpack", "inc_passed", "inc_failed", "append", "print"}

(* C11: an interruption while tcp_ping is in flight (here: during connect)  *)
(* leaves tcp_ping as a KeyboardInterrupt that do_loop catches: each step   *)
(* of the finally clause goes on to close or to do_loop's return, with      *)
(* passed, failed, times_list and the sleeps as they were.                  *)
C11_InFlightDiscarded ==
    [][(pc \in {"shutdown", "close"} /\ connect_exc = "KeyboardInterrupt") =>
          /\ pc' \in {"close", "else"}
          /\ (pc' = "else" => interrupted')
          /\ passed' = passed
          /\ failed' = failed
          /\ times_list' = times_list
          /\ sleeps' = sleeps]_vars

(* C12: every sleep lasts args.interval; while probe k = idx+1 is in flight *)
(* or being accounted exactly k-1 sleeps have been made; after its          *)
(* iteration one more has been made iff attempts remain; an uninterrupted   *)
(* run of count >= 1 probes has slept count-1 times when it returns.        *)
C12_SleepsBetweenProbes ==
    /\ \A i \in DOMAIN sleeps : sleeps[i] = args.interval
    /\ (pc \in IterationPcs \cup {"sleep"} => Len(sleeps) = idx)
    /\ ((pc = "for" /\ idx >= 0) =>
          Len(sleeps) = (IF idx + 1 < args.count THEN idx + 1 ELSE idx))
    /\ ((pc = "return" /\ args.count >= 1) => Len(sleeps) = args.count - 1)
    /\ ((pc = "else" /\ ~interrupted /\ args.count >= 1) =>
          Len(sleeps) = args.count - 1)

(* C12 witness: an uninterrupted run of several probes, some passed and     *)
(* some failed, is about to return                                          *)
C12_Witness ==
    pc = "return" /\ args.count >= 2 /\ passed >= 1 /\ failed >= 1

(* C13: while probe k = idx+1 is in flight or being accounted, only lines   *)
(* of earlier probes have been printed; when the sleep after a successful   *)
(* probe k is about to start, the last thing printed is the line of probe   *)
(* k; the header precedes every line and is printed before the first        *)
(* probe; the footer is the last output, printed when main is done.         *)
C13_LineOrder ==
    /\ (pc \in IterationPcs =>
          \A i \in DOMAIN out : out[i].kind = "line" => out[i].tcp_seq <= idx)
    /\ ((pc = "sleep" /\ isok) =>
          /\ out # << >>
          /\ out[Len(out)].kind = "line"
          /\ out[Len(out)].tcp_seq = idx + 1
          /\ out[Len(out)].time = timespan)
    /\ (pc \in IterationPcs \cup DoLoopPcs =>
          \E h \in DOMAIN out :
              /\ out[h].kind = "header"
              /\ \A i \in DOMAIN out : out[i].kind = "line" => i > h)
    /\ \A i \in DOMAIN out :
          out[i].kind = "footer" => (i = Len(out) /\ pc = "exit")

(* C13 witness: the second or a later probe succeeded and its line is out   *)
C13_Witness ==
    pc = "sleep" /\ isok /\ idx >= 1

(* standard output after the warning parse_args may have printed *)
SessionOut ==
    IF out # << >> /\ out[1].kind = "warning" THEN Tail(out) ELSE out

(* C14 as claimed: a session that completes normally printed the header,    *)
(* then exactly one line per successful probe and nothing for a failed      *)
(* one, then the footer.                                                    *)
C14_OnlyHeaderLinesFooter ==
    (rc = ExitOk /\ ~interrupted) =>
        LET o == SessionOut
        IN  /\ Len(o) = passed + 2
            /\ o[1].kind = "header"
            /\ o[Len(o)].kind = "footer"
            /\ \A i \in 2..(Len(o) - 1) : o[i].kind = "line"

(* C14 amended: a session that completes normally printed the header, then  *)
(* for probe k = 1..count, in order, either its report line (tcp_seq = k)   *)
(* when it succeeded or one failure message ("Connection timed out" or      *)
(* "OSError: ...") when it failed, then the footer; the report lines are    *)
(* passed in number and the failure messages failed in number.              *)
C14_HeaderProbesFooter ==
    (rc = ExitOk /\ ~interrupted) =>
        LET o == SessionOut
        IN  /\ Len(o) = args.count + 2
            /\ o[1].kind = "header"
            /\ o[Len(o)].kind = "footer"
            /\ \A k \in 1..args.count :
                  \/ o[k + 1].kind = "line" /\ o[k + 1].tcp_seq = k
                  \/ o[k + 1].kind \in {"timed out", "OSError"}
            /\ Cardinality({i \in DOMAIN o : o[i].kind = "line"}) = passed
            /\ Cardinality({i \in DOMAIN o : o[i].kind \in {"timed out", "OSError"}})
                  = failed

(* C14 witness: a session completed normally with passed and failed probes  *)
C14_Witness ==
    rc = ExitOk /\ ~interrupted /\ passed >= 1 /\ failed >= 1

(* C15: an interval below 0.2 s becomes exactly 0.2 s and the warning is    *)
(* printed once, first; an interval of 0.2 s or more is kept and no         *)
(* warning is printed; every sleep of do_loop lasts at least 0.2 s.         *)
C15_IntervalClamped ==
    pc # "parse_args" =>
        /\ (argv.interval < MinInterval =>
              /\ args.interval = MinInterval
              /\ out # << >>
              /\ {i \in DOMAIN out : out[i].kind = "warning"} = {1})
        /\ (argv.interval >= MinInterval =>
              /\ args.interval = argv.interval
              /\ {i \in DOMAIN out : out[i].kind = "warning"} = {})
        /\ \A i \in DOMAIN sleeps : sleeps[i] >= MinInterval

(* C15 witness: the interval given was below 0.2 s and a sleep was made *)
C15_Witness ==
    argv.interval < MinInterval /\ Len(sleeps) >= 1

AllEqual(s) == \A i, j \in DOMAIN s : s[i] = s[j]

RECURSIVE Total(_)
Total(s) == IF s = << >> THEN 0 ELSE Head(s) + Total(Tail(s))

(* what C16 says of the minimum and the maximum: they are elements of D     *)
(* and bound every element                                                  *)
MinMaxOf(D, v) ==
    /\ \E i \in DOMAIN D : D[i] = v[1]
    /\ \E i \in DOMAIN D : D[i] = v[2]
    /\ \A i \in DOMAIN D : v[1] <= D[i] /\ D[i] <= v[2]

(* q is the arithmetic mean of D up to the rounding of Len(D) float         *)
(* operations of p bits: |q - mean| <= mean * Len(D) / 2^(p-1)              *)
NearMean(p, D, q) ==
    2^(p - 1) * Abs(q.num * Len(D) - Total(D) * q.den) <= Total(D) * q.den * Len(D)

(* the example of the test suite and of the spec, in floats precise enough  *)
(* to hold its sums: 3, 16, 9 and 3.75                                      *)
ExampleStatistics ==
    StatisticsAt(ExampleBits, << 3, 6, 6, 7, 8, 11, 15, 16 >>).value
        = << 3, 16, Frac(9), [num |-> 15, den |-> 4] >>

(* C16 as claimed: for the non-empty list footer hands to statistics, the   *)
(* result is (min, max, mean, mean deviation) in this order, min <= every   *)
(* element <= max, and the mean deviation is >= 0 and is 0 iff all the      *)
(* elements are equal.                                                      *)
C16_DeviationZeroIffEqual ==
    (pc = "else" /\ times_list # << >>) =>
        LET v == Statistics(times_list).value
        IN  /\ MinMaxOf(times_list, v)
            /\ NearMean(PrecisionBits, times_list, v[3])
            /\ v[4].num >= 0
            /\ (v[4].num = 0 <=> AllEqual(times_list))
            /\ ExampleStatistics

(* C16 amended: the result is (min, max, float mean, float mean of the      *)
(* absolute differences from that mean) in this order; min <= every        *)
(* element <= max; the mean is the arithmetic mean up to rounding; the      *)
(* mean deviation is >= 0, is 0 only if all the elements are equal, and is  *)
(* 0 for a single element; the example gives 3, 16, 9, 3.75.                *)
C16_StatisticsOfFloats ==
    (pc = "else" /\ times_list # << >>) =>
        LET v == Statistics(times_list).value
        IN  /\ MinMaxOf(times_list, v)
            /\ NearMean(PrecisionBits, times_list, v[3])
            /\ v[4].num >= 0
            /\ (v[4].num = 0 => AllEqual(times_list))
            /\ (Len(times_list) = 1 => (v[4].num = 0 /\ v[3] = Frac(times_list[1])))
            /\ ExampleStatistics

(* C16 witness: statistics is about to be applied to several latencies      *)
(* that are not all equal                                                   *)
C16_Witness ==
    pc = "else" /\ Len(times_list) >= 2 /\ ~AllEqual(times_list)

(* C17: the (hostname, ip) pair shown in the header is the pair that is     *)
(* probed by do_loop and shown in the footer, whatever the resolver         *)
(* answers to successive lookups.                                           *)
C17_HeaderShowsTarget ==
    target # << "", "" >> =>
        \A i \in DOMAIN out :
            /\ out[i].kind = "header" =>
                  (out[i].hostname = target[1] /\ out[i].ipaddr = target[2])
            /\ out[i].kind = "footer" =>
                  \A j \in DOMAIN out :
                      out[j].kind = "header" => out[j].ipaddr = out[i].ipaddr

(* C18: suppress(Exception) around sock.shutdown and sock.close swallows    *)
(* what the body raises exactly when it is an instance of Exception, an     *)
(* instance of a subclass included, as contextlib.suppress does.            *)
C18_SuppressLikeContextlib ==
    (pc \in {"shutdown", "close"}) =>
        \A typ \in TeardownRaises :
            SuppressExit({"Exception"}, typ) <=> IsSubclass(typ, "Exception")

(* C19: under the label rtt min/avg/max/mdev the footer prints the minimum, *)
(* the average, the maximum and the mean deviation, in this order.          *)
C19_RttOrderAsLabelled ==
    (rc = ExitOk) =>
        LET v == Statistics(times_list).value
        IN  out[Len(out)].rtt = << v[1], Fmt3(v[3]), v[2], Fmt3(v[4]) >>

====
